---- MODULE Spec2Model ----
(***************************************************************************)
(* A model of src/src/ckeditor.jsx: the <CKEditor> React component, its    *)
(* lifecycle hooks, and the EditorWatchdogAdapter that wraps a shared      *)
(* ContextWatchdog.  The host framework (React), the watchdogs and the     *)
(* editor engine are the environment: they call the component's handlers   *)
(* and run the promise continuations and timers the component schedules.   *)
(*                                                                         *)
(* JavaScript scheduling is modelled as it is: a handler runs to its end;  *)
(* promise jobs (microtasks, the registry's action queue) run before the   *)
(* next host event, timer or engine resolution (IdleLoop).                 *)
(***************************************************************************)
EXTENDS Integers, Sequences, FiniteSets, TLC

(* ------------------------------ bounds -------------------------------- *)

\* How many creator runs (first creations, re-creations, restarts) one
\* behaviour may hold.  Every watchdog has at least one, so it bounds the
\* watchdogs too.
MaxCreations == 2

Slots == 1..MaxCreations

\* Values of the id prop, the data prop / editor content, config.initialData,
\* the disabled prop and the errors an engine or a watchdog may raise.
\* "" is the empty (falsy) string; "absent" is a prop that is not passed.
Ids == {1, 2}
DataValues == {"", "A"}
InitialDataValues == {"", "I"}
DisabledValues == {"absent", "true", "false"}
Errors == {"E1", "E2"}

\* An itemError of the shared registry may carry the id of an item another
\* component added.  uid() never returns it for one of our adapters.
ForeignIds == {-1}

\* config.language stands for the fields of config other than initialData.
LanguageValues == {"", "en"}

\* onReady, onChange, onFocus, onBlur: TRUE when the callback is passed.
PropsSet ==
    [id : Ids, data : DataValues, initialData : InitialDataValues,
     language : LanguageValues, disabled : DisabledValues, onReady : BOOLEAN,
     onChange : BOOLEAN, onFocus : BOOLEAN, onBlur : BOOLEAN]

\* Props that pass neither config fields nor event callbacks.
PlainProps ==
    {p \in PropsSet : p.language = "" /\ ~p.onChange /\ ~p.onFocus /\ ~p.onBlur}

\* The props a parent passes in the behaviours of Spec: the id, the data and
\* the onReady callback vary from render to render; config.initialData and
\* disabled are not passed.
LifecycleProps ==
    {p \in PlainProps : p.initialData = "" /\ p.disabled = "absent"}

\* The props of SpecDisabled: the id and the disabled flag (passed as true,
\* as false, or not passed) vary from render to render, and under the first
\* id the data too.
DisabledProps ==
    {p \in PlainProps :
        /\ p.initialData = ""
        /\ ~p.onReady
        /\ p.id # 1 => p.data = ""}

\* The props of SpecEvents: the id varies, under the first id the data and
\* the event callbacks passed (onChange; onFocus and onBlur together) vary
\* from render to render; the second id comes with all three callbacks.
EventProps ==
    {p \in PropsSet :
        /\ p.initialData = "" /\ p.language = "" /\ p.disabled = "absent"
        /\ ~p.onReady
        /\ p.onFocus = p.onBlur
        /\ p.id # 1 => (p.data = "" /\ p.onChange /\ p.onFocus)}

\* The props of SpecConfig: the id varies, and under the first id the data,
\* config.initialData and config.language vary from render to render.
ConfigProps ==
    {p \in PropsSet :
        /\ p.disabled = "absent"
        /\ ~p.onReady /\ ~p.onChange /\ ~p.onFocus /\ ~p.onBlur
        /\ p.id # 1 => (p.data = "" /\ p.initialData = "" /\ p.language = "")}

\* The provided context (1: a ContextWatchdog, 0: none) may change either way
\* during a mount; or a ContextWatchdog may only appear and then stay.
ContextChanges == {<<0, 1>>, <<1, 0>>}
ContextAppears == {<<0, 1>>}

(* ------------------------------- state -------------------------------- *)

VARIABLES
    \* the component (one instance)
    lifecycle,      \* "constructed" | "mounted" | "unmounted"
    phase,          \* "idle" | "didUpdate": between shouldComponentUpdate
                    \* returning true and componentDidUpdate
    hostProps,      \* the props the parent may pass in this behaviour
    hostContexts,   \* the changes <<from, to>> of the provided context the
                    \* ancestors may make in this behaviour
    props,          \* this.props
    prevProps,      \* the props before the update React is committing
                    \* (equal to props outside a commit)
    context,        \* this.context: 1 = a ContextWatchdog is provided, 0 = none
    watchdog,       \* this.watchdog: 0 = null, else a watchdog
    \* the watchdogs the component constructed (EditorWatchdog or adapter)
    nWatchdogs,
    wdKind,         \* "solo" (EditorWatchdog) | "registry" (EditorWatchdogAdapter)
    wdEditor,       \* the watchdog's current editor, 0 = null
    wdActive,       \* the watchdog handles runtime errors of its editor
    wdDestroyCalls, \* how often destroy() was called on it
    registered,     \* adapters whose item the registry holds (getItem succeeds)
    listeners,      \* adapters whose on() subscribed to the registry's itemError
    \* the creator runs (_createEditor) and the editors they produce
    nCreations,
    crWatchdog,     \* the watchdog whose creator ran
    crStatus,       \* "none" | "queued" | "pending" | "resolved" | "rejected"
    crRestart,      \* TRUE: the supervisor re-ran the creator (a restart)
    crConfig,       \* the config passed on to props.editor.create, kept
                    \* until the engine has settled the creation
    edState,        \* "none" | "live" | "destroyed"
    edData,         \* editor.getData() of a live editor
    edReadOnly,     \* editor.isReadOnly of a live editor
    edListeners,    \* the listeners _createEditor attached to the editor's
                    \* model and view documents
    \* scheduling
    microtasks,     \* promise jobs of the solo watchdogs, FIFO
    regQueue,       \* the registry's action queue, FIFO, the head is running
    timers,         \* setTimeout callbacks not yet run, FIFO
    \* what the callbacks in props received
    timerRuns,      \* per creation: how many of its setTimeout callbacks ran
    lastReady,      \* the timer callback of the last step: its creation and
                    \* the arguments of the onReady calls it made
    catchCount,     \* per creation: the onError calls of the .catch in line 104
    lastCatch,      \* the onError calls the last step's .catch made
    lastUpdate,     \* what the last shouldComponentUpdate saw and did
    lastEvent,      \* the last error event a watchdog or the registry fired
    lastCallbacks,  \* per watchdog: the error callbacks that event invoked
    lastDom,        \* the event an editor emitted in the last step and the
                    \* callbacks of props its listeners called
    lastInit        \* the _initializeEditor run of the last step: its
                    \* creation, the result of _getConfig() and its warnings

compVars == <<lifecycle, phase, hostProps, hostContexts, props, prevProps, context, watchdog>>
wdVars == <<nWatchdogs, wdKind, wdEditor, wdActive, wdDestroyCalls,
            registered, listeners>>
crVars == <<nCreations, crWatchdog, crStatus, crRestart, crConfig>>
edVars == <<edState, edData, edReadOnly, edListeners>>
queueVars == <<microtasks, regQueue, timers>>
readyVars == <<timerRuns, catchCount>>
obsVars == <<lastReady, lastCatch, lastUpdate, lastEvent, lastCallbacks,
            lastDom, lastInit>>

vars == <<compVars, wdVars, crVars, edVars, queueVars, readyVars, obsVars>>

\* kind: "noEditor" | "identity" | "inPlace"; wd: this.watchdog on entry of an
\* identity change; sameAsPrev: nextProps.data was this.props.data;
\* sameAsContent: nextProps.data was the editor's getData() on entry;
\* setData: the arguments of the setData calls made; readOnly: the values
\* written to isReadOnly; wasReadOnly: isReadOnly on entry; returned: the
\* value returned to React; sameId: nextProps.id was this.props.id; ed:
\* this.editor on entry; before: what the component had issued on entry.
NoUpdate ==
    [kind |-> "none", wd |-> 0, sameAsPrev |-> FALSE, sameAsContent |-> FALSE,
     setData |-> <<>>, readOnly |-> <<>>, wasReadOnly |-> FALSE,
     returned |-> FALSE, sameId |-> FALSE, ed |-> 0, before |-> <<>>]

NoReady == [c |-> 0, args |-> <<>>]

\* kind: "solo" | "registry": the error event of a solo watchdog, or an
\* itemError of the registry, itemId naming the item (for solo, the watchdog);
\* "rejected": props.editor.create rejected for creation itemId.
\* issued: what the component had issued when the event was fired (Issued).
NoEvent ==
    [kind |-> "none", itemId |-> 0, error |-> "", causesRestart |-> FALSE,
     issued |-> <<>>]

NoCallbacks == [w \in Slots |-> <<>>]

\* c: the editor that emitted; kind: "change:data" | "focus" | "blur"; src:
\* "user", or "setData" for the change the component's own setData made.
NoDom == [c |-> 0, kind |-> "", src |-> "", calls |-> <<>>]

NoInit == [c |-> 0, config |-> <<>>, warnings |-> <<>>]

(* ------------------------- the component's code ----------------------- *)

\* contextWatchdog.getItem( id ) for the id of adapter w: the item's editor
\* (null while it restarts), or an error thrown for an id the registry does
\* not hold.
GetItem(w) ==
    IF w \in registered
    THEN [threw |-> FALSE, value |-> wdEditor[w]]
    ELSE [threw |-> TRUE, value |-> 0]

\* The getter without its try / catch.
AdapterEditorNoCatch(w) == GetItem(w)

\* EditorWatchdogAdapter.editor: what the getter returns or throws.
AdapterEditorOutcome(w) ==
    IF GetItem(w).threw THEN [threw |-> FALSE, value |-> 0] ELSE GetItem(w)

\* EditorWatchdogAdapter.editor: getItem throws for an id the registry does
\* not hold, and the getter turns that into null.
AdapterEditor(w) == AdapterEditorOutcome(w).value

\* watchdog.editor, for either kind of watchdog.
WatchdogEditor(w) ==
    IF wdKind[w] = "registry" THEN AdapterEditor(w) ELSE wdEditor[w]

\* CKEditor.editor
ComponentEditor ==
    IF watchdog = 0 THEN 0 ELSE WatchdogEditor(watchdog)

\* _getConfig preferring the data prop to config.initialData.
GetConfigDataFirst(p) ==
    [initialData |->
        IF p.data # "" THEN p.data
        ELSE IF p.initialData # "" THEN p.initialData
        ELSE "",
     language |-> p.language]

\* CKEditor._getConfig: { ...config, initialData: config.initialData || data || '' }
GetConfig(p) ==
    [initialData |->
        IF p.initialData # "" THEN p.initialData
        ELSE IF p.data # "" THEN p.data
        ELSE "",
     language |-> p.language]

\* CKEditor._getConfig: the console.warn calls it makes.
GetConfigWarnings(p) ==
    IF p.data # "" /\ p.initialData # "" THEN <<"warn">> ELSE <<>>

\* _shouldUpdateEditor without its first check (this.props.data against
\* nextProps.data): a parent that re-renders with the data it always passed
\* would overwrite what the user typed.
ShouldUpdateEditorNoPrevCheck(nextProps) ==
    edData[ComponentEditor] # nextProps.data

\* CKEditor._shouldUpdateEditor
ShouldUpdateEditor(nextProps) ==
    IF props.data = nextProps.data THEN FALSE
    ELSE IF edData[ComponentEditor] = nextProps.data THEN FALSE
    ELSE TRUE

\* An adapter listener that does not compare the item id.
AdapterOnUnfiltered(w, ev) ==
    <<[error |-> ev.error, causesRestart |-> ev.causesRestart]>>

\* EditorWatchdogAdapter.on: the itemError listener of adapter w calls the
\* callback only for its own id.  The adapter's id is w itself (uid() is
\* unique per adapter).  The result is the calls it makes for event ev.
AdapterOn(w, ev) ==
    IF ev.itemId = w
    THEN <<[error |-> ev.error, causesRestart |-> ev.causesRestart]>>
    ELSE <<>>

\* The listener _initializeEditor sets with watchdog.on( 'error', ... ), that
\* always reports willEditorRestart: false.
RuntimeListenerNoRestartFlag(call) ==
    <<[error |-> call.error, phase |-> "runtime", willEditorRestart |-> FALSE]>>

\* The listener _initializeEditor sets with watchdog.on( 'error', ... ): the
\* onError calls it makes when the watchdog invokes it with call.
RuntimeListener(call) ==
    <<[error |-> call.error, phase |-> "runtime",
       willEditorRestart |-> call.causesRestart]>>

\* Each listener attached twice.
ForwardingListenersTwice(c) ==
    <<[event |-> "change:data", editor |-> c], [event |-> "change:data", editor |-> c],
      [event |-> "focus", editor |-> c], [event |-> "focus", editor |-> c],
      [event |-> "blur", editor |-> c], [event |-> "blur", editor |-> c]>>

\* The listeners _createEditor's continuation attaches to editor c: on
\* change:data of the model document, on focus and on blur of the view
\* document.  Each closes over the editor it was attached to.
ForwardingListeners(c) ==
    <<[event |-> "change:data", editor |-> c],
      [event |-> "focus", editor |-> c],
      [event |-> "blur", editor |-> c]>>

\* One of these listeners run with this.props = p: it calls the callback of
\* its event with the event and its editor if p holds the callback.
ListenerCalls(l, p) ==
    CASE l.event = "change:data" ->
           IF p.onChange THEN <<[callback |-> "onChange", editor |-> l.editor]>> ELSE <<>>
      [] l.event = "focus" ->
           IF p.onFocus THEN <<[callback |-> "onFocus", editor |-> l.editor]>> ELSE <<>>
      [] l.event = "blur" ->
           IF p.onBlur THEN <<[callback |-> "onBlur", editor |-> l.editor]>> ELSE <<>>

\* Editor c emits an event of one kind while this.props = p: the calls its
\* listeners for that event make, in the order they were attached.
RECURSIVE EmitFrom(_, _, _, _)
EmitFrom(c, kind, p, i) ==
    IF i > Len(edListeners[c]) THEN <<>>
    ELSE (IF edListeners[c][i].event = kind
          THEN ListenerCalls(edListeners[c][i], p)
          ELSE <<>>) \o EmitFrom(c, kind, p, i + 1)

Emit(c, kind, p) == EmitFrom(c, kind, p, 1)

\* What the component has issued so far: the watchdog it holds, the
\* watchdogs it constructed (one create() each) and its destroy() calls.
Issued ==
    [watchdog |-> watchdog, creates |-> nWatchdogs, destroys |-> wdDestroyCalls]

(* ----------------------------- scheduling ----------------------------- *)

RegHeadRunnable ==
    /\ regQueue # <<>>
    /\ LET h == Head(regQueue)
       IN CASE h.op = "add" -> ~h.started
            [] h.op = "remove" -> TRUE
            [] h.op = "restart" -> crStatus[h.c] = "resolved"

\* No handler is running and no promise job is ready: the event loop takes
\* the next host event, timer or engine resolution.
IdleLoop ==
    /\ phase = "idle"
    /\ microtasks = <<>>
    /\ ~RegHeadRunnable


\* The observations of the last update / last error event are dropped by
\* every other step: they describe one handler run.
ForgetUpdate == lastUpdate' = NoUpdate
ForgetEvent == lastEvent' = NoEvent /\ lastCallbacks' = NoCallbacks
ForgetCalls == lastReady' = NoReady /\ lastCatch' = <<>>
ForgetDom == lastDom' = NoDom
ForgetInit == lastInit' = NoInit
Forget == ForgetUpdate /\ ForgetEvent /\ ForgetCalls /\ ForgetDom /\ ForgetInit

(* -------------------------------- Init -------------------------------- *)

NoConfig == [initialData |-> "", language |-> ""]

\* The constructed component, under a parent that passes props of the set H
\* and ancestors that change the provided context as C allows.
InitWith(H, C) ==
    /\ lifecycle = "constructed"
    /\ phase = "idle"
    /\ hostProps = H
    /\ hostContexts = C
    /\ props \in hostProps
    /\ prevProps = props
    /\ context \in {0, 1}
    /\ watchdog = 0
    /\ nWatchdogs = 0
    /\ wdKind = [w \in Slots |-> "solo"]
    /\ wdEditor = [w \in Slots |-> 0]
    /\ wdActive = [w \in Slots |-> FALSE]
    /\ wdDestroyCalls = [w \in Slots |-> 0]
    /\ registered = {}
    /\ listeners = {}
    /\ nCreations = 0
    /\ crWatchdog = [c \in Slots |-> 0]
    /\ crStatus = [c \in Slots |-> "none"]
    /\ crRestart = [c \in Slots |-> FALSE]
    /\ crConfig = [c \in Slots |-> NoConfig]
    /\ edState = [c \in Slots |-> "none"]
    /\ edData = [c \in Slots |-> ""]
    /\ edReadOnly = [c \in Slots |-> FALSE]
    /\ edListeners = [c \in Slots |-> <<>>]
    /\ microtasks = <<>>
    /\ regQueue = <<>>
    /\ timers = <<>>
    /\ timerRuns = [c \in Slots |-> 0]
    /\ lastReady = NoReady
    /\ catchCount = [c \in Slots |-> 0]
    /\ lastCatch = <<>>
    /\ lastUpdate = NoUpdate
    /\ lastEvent = NoEvent
    /\ lastCallbacks = NoCallbacks
    /\ lastDom = NoDom
    /\ lastInit = NoInit

Init == InitWith(LifecycleProps, ContextChanges)

InitDisabled == InitWith(DisabledProps, ContextAppears)

InitEvents == InitWith(EventProps, ContextAppears)

InitConfig == InitWith(ConfigProps, ContextAppears)

(* ---------------- _initializeEditor and _destroyEditor ---------------- *)

\* CKEditor._initializeEditor, run with this.context = ctx and this.props = p:
\* a new watchdog of the kind the context selects is assigned, the creator
\* and the error listener are set, and create() is called with _getConfig().
\* Solo: EditorWatchdog.create runs the creator in a promise job.
\* Registry: the adapter's create() enqueues an add in the registry.
InitializeEditor(ctx, p) ==
    LET w == nWatchdogs + 1
        c == nCreations + 1
        kind == IF ctx = 1 THEN "registry" ELSE "solo"
    IN /\ nCreations < MaxCreations
       /\ nWatchdogs' = w
       /\ wdKind' = [wdKind EXCEPT ![w] = kind]
       /\ watchdog' = w
       /\ listeners' = IF kind = "registry" THEN listeners \cup {w} ELSE listeners
       /\ nCreations' = c
       /\ crWatchdog' = [crWatchdog EXCEPT ![c] = w]
       /\ crStatus' = [crStatus EXCEPT ![c] = "queued"]
       /\ crRestart' = [crRestart EXCEPT ![c] = FALSE]
       /\ crConfig' = [crConfig EXCEPT ![c] = GetConfig(p)]
       /\ lastInit' = [c |-> c, config |-> GetConfig(p),
                       warnings |-> GetConfigWarnings(p)]
       /\ IF kind = "solo"
          THEN /\ microtasks' = Append(microtasks, [op |-> "create", w |-> w, c |-> c])
               /\ UNCHANGED regQueue
          ELSE /\ regQueue' = Append(regQueue,
                      [op |-> "add", w |-> w, c |-> c, started |-> FALSE])
               /\ UNCHANGED microtasks
       /\ UNCHANGED <<wdEditor, wdActive, wdDestroyCalls, registered>>

\* _destroyEditor that calls destroy() but keeps this.watchdog.
DestroyEditorKeepsReference ==
    IF watchdog = 0
    THEN UNCHANGED <<watchdog, wdDestroyCalls, microtasks, regQueue>>
    ELSE /\ wdDestroyCalls' = [wdDestroyCalls EXCEPT ![watchdog] = @ + 1]
         /\ watchdog' = watchdog
         /\ IF wdKind[watchdog] = "solo"
            THEN /\ microtasks' = Append(microtasks,
                        [op |-> "destroy1", w |-> watchdog, c |-> 0])
                 /\ UNCHANGED regQueue
            ELSE /\ regQueue' = Append(regQueue,
                        [op |-> "remove", w |-> watchdog, c |-> 0, started |-> FALSE])
                 /\ UNCHANGED microtasks

\* CKEditor._destroyEditor: nothing without a watchdog; else destroy() is
\* called on it and the reference is cleared.  EditorWatchdog.destroy() works
\* in promise jobs; the adapter's destroy() enqueues a remove in the registry.
DestroyEditor ==
    IF watchdog = 0
    THEN UNCHANGED <<watchdog, wdDestroyCalls, microtasks, regQueue>>
    ELSE /\ wdDestroyCalls' = [wdDestroyCalls EXCEPT ![watchdog] = @ + 1]
         /\ watchdog' = 0
         /\ IF wdKind[watchdog] = "solo"
            THEN /\ microtasks' = Append(microtasks,
                        [op |-> "destroy1", w |-> watchdog, c |-> 0])
                 /\ UNCHANGED regQueue
            ELSE /\ regQueue' = Append(regQueue,
                        [op |-> "remove", w |-> watchdog, c |-> 0, started |-> FALSE])
                 /\ UNCHANGED microtasks

(* ------------------------- the lifecycle hooks ------------------------ *)

\* componentDidMount
Mount ==
    /\ lifecycle = "constructed"
    /\ lifecycle' = "mounted"
    /\ InitializeEditor(context, props)
    /\ ForgetUpdate /\ ForgetEvent /\ ForgetCalls /\ ForgetDom
    /\ UNCHANGED <<phase, hostProps, hostContexts, props, prevProps, context, edVars, timers, readyVars>>

\* setData called with the data of this.props instead of nextProps.
SetDataCallsStale(nextProps) ==
    IF ShouldUpdateEditor(nextProps) THEN <<props.data>> ELSE <<>>

\* The setData calls of one shouldComponentUpdate on a live editor.
SetDataCalls(nextProps) ==
    IF ShouldUpdateEditor(nextProps) THEN <<nextProps.data>> ELSE <<>>

\* isReadOnly written only together with a content push.
ReadOnlyWritesOnPush(nextProps) ==
    IF nextProps.disabled # "absent" /\ ShouldUpdateEditor(nextProps)
    THEN <<nextProps.disabled = "true">>
    ELSE <<>>

\* The isReadOnly writes of one shouldComponentUpdate on a live editor.
ReadOnlyWrites(nextProps) ==
    IF nextProps.disabled # "absent" THEN <<nextProps.disabled = "true">> ELSE <<>>

\* The identity test of shouldComponentUpdate that also takes a new data
\* prop for a new identity.
IdentityChangedOrData(nextProps) ==
    nextProps.id # props.id \/ nextProps.data # props.data

\* shouldComponentUpdate: nextProps.id !== this.props.id
IdentityChanged(nextProps) ==
    nextProps.id # props.id

\* shouldComponentUpdate( nextProps ); React then sets this.props = nextProps
\* and, when it returned true, renders and calls componentDidUpdate.
ShouldComponentUpdate(nextProps) ==
    LET ed == ComponentEditor
        seen == [NoUpdate EXCEPT !.sameAsPrev = (nextProps.data = props.data),
                                 !.sameId = (nextProps.id = props.id),
                                 !.ed = ed, !.before = Issued]
    IN /\ props' = nextProps
       /\ UNCHANGED <<hostProps, hostContexts>>
       /\ ForgetEvent /\ ForgetCalls /\ ForgetInit
       /\ IF ed = 0
          THEN /\ lastUpdate' = [seen EXCEPT !.kind = "noEditor", !.returned = FALSE]
               /\ ForgetDom
               /\ prevProps' = nextProps
               /\ UNCHANGED <<lifecycle, phase, context, watchdog,
                              wdVars, crVars, edVars, queueVars, readyVars>>
          ELSE IF IdentityChanged(nextProps)
          THEN /\ nCreations < MaxCreations
               /\ DestroyEditor
               /\ phase' = "didUpdate"
               /\ prevProps' = props
               /\ ForgetDom
               /\ lastUpdate' = [seen EXCEPT !.kind = "identity", !.wd = watchdog,
                                     !.sameAsContent = (nextProps.data = edData[ed]),
                                     !.returned = TRUE]
               /\ UNCHANGED <<lifecycle, context, nWatchdogs, wdKind, wdEditor,
                              wdActive, registered, listeners, crVars, edVars,
                              timers, readyVars>>
          ELSE LET pushes == SetDataCalls(nextProps)
                   flags == ReadOnlyWrites(nextProps)
               IN /\ edData' = IF pushes # <<>>
                               THEN [edData EXCEPT ![ed] = pushes[Len(pushes)]]
                               ELSE edData
                  /\ edReadOnly' = IF flags # <<>>
                                   THEN [edReadOnly EXCEPT ![ed] = flags[Len(flags)]]
                                   ELSE edReadOnly
                  /\ lastUpdate' = [seen EXCEPT !.kind = "inPlace",
                                        !.sameAsContent = (nextProps.data = edData[ed]),
                                        !.setData = pushes,
                                        !.readOnly = flags,
                                        !.wasReadOnly = edReadOnly[ed],
                                        !.returned = FALSE]
                  /\ lastDom' = IF pushes # <<>>
                                THEN [c |-> ed, kind |-> "change:data", src |-> "setData",
                                      calls |-> Emit(ed, "change:data", props)]
                                ELSE NoDom
                  /\ prevProps' = nextProps
                  /\ UNCHANGED <<lifecycle, phase, context, watchdog,
                                 wdVars, crVars, edState, edListeners, queueVars,
                                 readyVars>>

\* A parent re-render passes new props to the mounted component.
Update ==
    /\ lifecycle = "mounted"
    /\ IdleLoop
    /\ \E nextProps \in hostProps : ShouldComponentUpdate(nextProps)

\* componentDidUpdate building the configuration from the props before the
\* update.
DidUpdateStaleProps ==
    /\ phase = "didUpdate"
    /\ phase' = "idle"
    /\ prevProps' = props
    /\ InitializeEditor(context, prevProps)
    /\ ForgetEvent /\ ForgetCalls /\ ForgetDom
    /\ UNCHANGED <<lifecycle, hostProps, hostContexts, props, context, edVars, timers, readyVars,
                   lastUpdate>>

\* componentDidUpdate, which React calls in the same commit.
DidUpdate ==
    /\ phase = "didUpdate"
    /\ phase' = "idle"
    /\ prevProps' = props
    /\ InitializeEditor(context, props)
    /\ ForgetEvent /\ ForgetCalls /\ ForgetDom
    /\ UNCHANGED <<lifecycle, hostProps, hostContexts, props, context, edVars, timers, readyVars,
                   lastUpdate>>

\* componentWillUnmount.  A test renderer may unmount an instance whose
\* componentDidMount never ran (the comment in _destroyEditor).
Unmount ==
    /\ lifecycle \in {"constructed", "mounted"}
    /\ IdleLoop
    /\ lifecycle' = "unmounted"
    /\ DestroyEditor
    /\ Forget
    /\ UNCHANGED <<phase, hostProps, hostContexts, props, prevProps, context, nWatchdogs,
                   wdKind, wdEditor, wdActive, registered, listeners, crVars,
                   edVars, timers, readyVars>>

\* CKEditor.contextType: when the provider's value changes, React re-renders
\* the mounted consumer without asking shouldComponentUpdate and calls
\* componentDidUpdate with the new this.context.
ContextChange ==
    /\ lifecycle = "mounted"
    /\ IdleLoop
    /\ <<context, 1 - context>> \in hostContexts
    /\ context' = 1 - context
    /\ InitializeEditor(1 - context, props)
    /\ ForgetUpdate /\ ForgetEvent /\ ForgetCalls /\ ForgetDom
    /\ UNCHANGED <<lifecycle, phase, hostProps, hostContexts, props, prevProps, edVars, timers,
                   readyVars>>

(* ------------------------ _createEditor's parts ----------------------- *)

\* _createEditor( element, config ) called by a watchdog as its creator:
\* props.editor.create( element, config ) is issued for creation c.
CreateEditor(c) ==
    crStatus' = [crStatus EXCEPT ![c] = "pending"]

\* The onReady timer scheduled twice.
ReadyTimersTwice(c) == <<c, c>>

\* The setTimeout callbacks _createEditor's continuation schedules for c.
ReadyTimers(c) == <<c>>

\* The continuation without the assignment of isReadOnly.
CreateEditorThenNoFlag(c) ==
    /\ edState' = [edState EXCEPT ![c] = "live"]
    /\ edData' = [edData EXCEPT ![c] = crConfig[c].initialData]
    /\ edReadOnly' = edReadOnly
    /\ edListeners' = [edListeners EXCEPT ![c] = ForwardingListeners(c)]
    /\ timers' = timers \o ReadyTimers(c)

\* The continuation of props.editor.create in _createEditor, for the editor
\* of creation c: the read-only flag is taken from this.props, the three
\* listeners are attached, the onReady timer is scheduled, and the editor is
\* returned to the watchdog.
CreateEditorThen(c) ==
    /\ edState' = [edState EXCEPT ![c] = "live"]
    /\ edData' = [edData EXCEPT ![c] = crConfig[c].initialData]
    /\ edReadOnly' = IF props.disabled # "absent"
                     THEN [edReadOnly EXCEPT ![c] = (props.disabled = "true")]
                     ELSE edReadOnly
    /\ edListeners' = [edListeners EXCEPT ![c] = ForwardingListeners(c)]
    /\ timers' = timers \o ReadyTimers(c)

\* The argument the timer callback passes to onReady: this.editor.
OnReadyArgument(c) == ComponentEditor

\* The setTimeout callback of creation c.
OnReadyTimer(c) ==
    /\ timerRuns' = [timerRuns EXCEPT ![c] = @ + 1]
    /\ lastReady' = [c |-> c,
                     args |-> IF props.onReady THEN <<OnReadyArgument(c)>> ELSE <<>>]

\* The .catch reporting the phase of the runtime listener.
InitializationCatchAsRuntime(err) ==
    <<[error |-> err, phase |-> "runtime", willEditorRestart |-> FALSE]>>

\* The .catch of _initializeEditor: the onError calls for a create that
\* rejected with err.
InitializationCatch(err) ==
    <<[error |-> err, phase |-> "initialization", willEditorRestart |-> FALSE]>>

(* ------------------- the watchdogs' promise jobs ---------------------- *)

\* A watchdog's editor is destroyed and released (EditorWatchdog._destroy).
\* With no editor the destructor fails in a promise nobody observes.
ReleaseEditor(w) ==
    LET ed == wdEditor[w]
    IN /\ wdEditor' = [wdEditor EXCEPT ![w] = 0]
       /\ edState' = IF ed # 0 THEN [edState EXCEPT ![ed] = "destroyed"] ELSE edState
       /\ edData' = IF ed # 0 THEN [edData EXCEPT ![ed] = ""] ELSE edData
       /\ edReadOnly' = IF ed # 0 THEN [edReadOnly EXCEPT ![ed] = FALSE] ELSE edReadOnly
       /\ UNCHANGED edListeners

\* The next promise job of a solo EditorWatchdog.
RunMicrotask ==
    /\ phase = "idle"
    /\ microtasks # <<>>
    /\ LET job == Head(microtasks)
       IN CASE job.op = "create" ->
                 \* create(): error handling starts and the creator is called
                 /\ wdActive' = [wdActive EXCEPT ![job.w] = TRUE]
                 /\ CreateEditor(job.c)
                 /\ microtasks' = Tail(microtasks)
                 /\ UNCHANGED <<wdEditor, edVars>>
            [] job.op = "destroy1" ->
                 \* destroy(): state 'destroyed', then _destroy() in a later job
                 /\ wdActive' = [wdActive EXCEPT ![job.w] = FALSE]
                 /\ microtasks' = Append(Tail(microtasks),
                        [op |-> "destroy2", w |-> job.w, c |-> 0])
                 /\ UNCHANGED <<wdEditor, edVars, crStatus>>
            [] job.op = "destroy2" ->
                 /\ ReleaseEditor(job.w)
                 /\ microtasks' = Tail(microtasks)
                 /\ UNCHANGED <<wdActive, crStatus>>
    /\ Forget
    /\ UNCHANGED <<compVars, nWatchdogs, wdKind, wdDestroyCalls, registered,
                   listeners, nCreations, crWatchdog, crRestart, crConfig,
                   regQueue, timers, readyVars>>

\* The registry (ContextWatchdog) starts or runs the head of its action
\* queue: add() registers the item and calls the creator, remove() takes
\* the item out and destroys its watchdog, and the action waiting for an
\* item's restart ends once the item is back.
RegStep ==
    /\ phase = "idle"
    /\ RegHeadRunnable
    /\ LET job == Head(regQueue)
       IN CASE job.op = "add" ->
                 /\ registered' = registered \cup {job.w}
                 /\ wdActive' = [wdActive EXCEPT ![job.w] = TRUE]
                 /\ CreateEditor(job.c)
                 /\ regQueue' = <<[job EXCEPT !.started = TRUE]>> \o Tail(regQueue)
                 /\ UNCHANGED <<wdEditor, edVars>>
            [] job.op = "remove" ->
                 /\ registered' = registered \ {job.w}
                 /\ wdActive' = [wdActive EXCEPT ![job.w] = FALSE]
                 /\ IF job.w \in registered
                    THEN ReleaseEditor(job.w)
                    ELSE UNCHANGED <<wdEditor, edVars>>
                 /\ regQueue' = Tail(regQueue)
                 /\ UNCHANGED crStatus
            [] job.op = "restart" ->
                 /\ regQueue' = Tail(regQueue)
                 /\ UNCHANGED <<registered, wdActive, wdEditor, edVars, crStatus>>
    /\ Forget
    /\ UNCHANGED <<compVars, nWatchdogs, wdKind, wdDestroyCalls, listeners,
                   nCreations, crWatchdog, crRestart, crConfig, microtasks,
                   timers, readyVars>>

\* The registry's running action ends when the creation it waits for settles.
SettleRegistry(c) ==
    IF /\ regQueue # <<>>
       /\ Head(regQueue).c = c
       /\ Head(regQueue).op \in {"add", "restart"}
    THEN Tail(regQueue)
    ELSE regQueue

(* ------------------------------ the engine ---------------------------- *)

\* props.editor.create resolves for creation c: _createEditor's continuation
\* runs, then the watchdog takes the editor it returned.
EngineResolve ==
    /\ IdleLoop
    /\ \E c \in Slots :
        /\ crStatus[c] = "pending"
        /\ CreateEditorThen(c)
        /\ crStatus' = [crStatus EXCEPT ![c] = "resolved"]
        /\ crConfig' = [crConfig EXCEPT ![c] = NoConfig]
        /\ wdEditor' = [wdEditor EXCEPT ![crWatchdog[c]] = c]
        /\ regQueue' = SettleRegistry(c)
    /\ Forget
    /\ UNCHANGED <<compVars, nWatchdogs, wdKind, wdActive, wdDestroyCalls,
                   registered, listeners, nCreations, crWatchdog, crRestart,
                   microtasks, readyVars>>

\* props.editor.create rejects for creation c.  The promise of a create()
\* the component called rejects into the .catch of _initializeEditor; a
\* restart's failure stays inside the watchdog.
EngineReject ==
    /\ IdleLoop
    /\ \E c \in Slots, err \in Errors :
        /\ crStatus[c] = "pending"
        /\ crStatus' = [crStatus EXCEPT ![c] = "rejected"]
        /\ crConfig' = [crConfig EXCEPT ![c] = NoConfig]
        /\ lastCatch' = IF crRestart[c] THEN <<>> ELSE InitializationCatch(err)
        /\ catchCount' = [catchCount EXCEPT ![c] = @ + Len(lastCatch')]
        /\ lastEvent' = [kind |-> "rejected", itemId |-> c, error |-> err,
                         causesRestart |-> FALSE, issued |-> Issued]
        /\ regQueue' = IF crRestart[c] THEN regQueue ELSE SettleRegistry(c)
    /\ ForgetUpdate /\ ForgetDom /\ ForgetInit
    /\ lastCallbacks' = NoCallbacks
    /\ lastReady' = NoReady
    /\ UNCHANGED <<compVars, wdVars, nCreations, crWatchdog, crRestart, edVars,
                   microtasks, timers, timerRuns>>

\* The oldest setTimeout callback runs.
TimerFire ==
    /\ IdleLoop
    /\ timers # <<>>
    /\ OnReadyTimer(Head(timers))
    /\ timers' = Tail(timers)
    /\ ForgetUpdate /\ ForgetEvent /\ ForgetDom /\ ForgetInit
    /\ lastCatch' = <<>>
    /\ UNCHANGED <<compVars, wdVars, crVars, edVars, microtasks, regQueue,
                   catchCount>>

\* The user types: the content of the editor the component shows changes.
UserEdit ==
    /\ IdleLoop
    /\ \E d \in DataValues :
        LET c == ComponentEditor
        IN /\ c # 0
           /\ d # edData[c]
           /\ edData' = [edData EXCEPT ![c] = d]
           /\ lastDom' = [c |-> c, kind |-> "change:data", src |-> "user",
                          calls |-> Emit(c, "change:data", props)]
    /\ ForgetUpdate /\ ForgetEvent /\ ForgetCalls /\ ForgetInit
    /\ UNCHANGED <<compVars, wdVars, crVars, edState, edReadOnly, edListeners,
                   queueVars, readyVars>>

\* The user moves the focus into or out of an editor the component created.
EditorEvent ==
    /\ IdleLoop
    /\ \E c \in Slots, kind \in {"focus", "blur"} :
        /\ edState[c] = "live"
        /\ lastDom' = [c |-> c, kind |-> kind, src |-> "user",
                       calls |-> Emit(c, kind, props)]
    /\ ForgetUpdate /\ ForgetEvent /\ ForgetCalls /\ ForgetInit
    /\ UNCHANGED <<compVars, wdVars, crVars, edVars, queueVars, readyVars>>

(* --------------------------- runtime errors --------------------------- *)

\* The error callbacks one event invokes.  A solo watchdog calls the listener
\* set on it; the registry calls every adapter's itemError listener, and
\* EditorWatchdogAdapter.on decides.
ErrorCallbacks(ev) ==
    [a \in Slots |->
        IF ev.kind = "solo"
        THEN IF a = ev.itemId
             THEN <<[error |-> ev.error, causesRestart |-> ev.causesRestart]>>
             ELSE <<>>
        ELSE IF a \in listeners THEN AdapterOn(a, ev) ELSE <<>>]

\* The editor of watchdog w throws.  The watchdog fires its error event and,
\* when the error causes a restart, destroys the editor and runs the creator
\* again with the data it saved (all in promise jobs no host event splits).
\* The other fields of the restart's config are those the watchdog saved at
\* create(), which the model does not follow ("saved").
RuntimeError ==
    /\ IdleLoop
    /\ \E w \in Slots, err \in Errors, restart \in BOOLEAN :
        LET ev == [kind |-> wdKind[w], itemId |-> w, error |-> err,
                   causesRestart |-> restart, issued |-> Issued]
            c == nCreations + 1
        IN /\ w <= nWatchdogs
           /\ wdActive[w]
           /\ wdEditor[w] # 0
           /\ lastEvent' = ev
           /\ lastCallbacks' = ErrorCallbacks(ev)
           /\ IF restart
              THEN /\ nCreations < MaxCreations
                   /\ ReleaseEditor(w)
                   /\ nCreations' = c
                   /\ crWatchdog' = [crWatchdog EXCEPT ![c] = w]
                   /\ crRestart' = [crRestart EXCEPT ![c] = TRUE]
                   /\ crConfig' = [crConfig EXCEPT
                          ![c] = [initialData |-> edData[wdEditor[w]],
                                  language |-> "saved"]]
                   /\ CreateEditor(c)
                   /\ regQueue' = IF wdKind[w] = "registry"
                                  THEN Append(regQueue, [op |-> "restart", w |-> w,
                                           c |-> c, started |-> TRUE])
                                  ELSE regQueue
                   /\ UNCHANGED wdActive
              ELSE /\ wdActive' = [wdActive EXCEPT ![w] = FALSE]
                   /\ UNCHANGED <<wdEditor, edVars, crVars, regQueue>>
    /\ ForgetUpdate /\ ForgetCalls /\ ForgetDom /\ ForgetInit
    /\ UNCHANGED <<compVars, nWatchdogs, wdKind, wdDestroyCalls, registered,
                   listeners, microtasks, timers, readyVars>>

\* The registry fires itemError for an item of another component.
ForeignItemError ==
    /\ IdleLoop
    /\ listeners # {}
    /\ \E id \in ForeignIds, restart \in BOOLEAN :
        LET ev == [kind |-> "registry", itemId |-> id, error |-> "E1",
                   causesRestart |-> restart, issued |-> Issued]
        IN /\ lastEvent' = ev
           /\ lastCallbacks' = ErrorCallbacks(ev)
    /\ ForgetUpdate /\ ForgetCalls /\ ForgetDom /\ ForgetInit
    /\ UNCHANGED <<compVars, wdVars, crVars, edVars, queueVars, readyVars>>

(* ------------------------------- Spec --------------------------------- *)

Next ==
    \/ Mount
    \/ Update
    \/ DidUpdate
    \/ Unmount
    \/ ContextChange
    \/ RunMicrotask
    \/ RegStep
    \/ EngineResolve
    \/ EngineReject
    \/ TimerFire
    \/ UserEdit
    \/ RuntimeError
    \/ ForeignItemError

Spec == Init /\ [][Next]_vars

\* The same component under a parent that passes the disabled prop.
SpecDisabled == InitDisabled /\ [][Next]_vars

\* The same component under a parent that passes config fields.
SpecConfig == InitConfig /\ [][Next]_vars

\* The same component under a parent that passes the event callbacks, with
\* the focus and blur events of its editors.
NextEvents ==
    \/ Next
    \/ EditorEvent

SpecEvents == InitEvents /\ [][NextEvents]_vars

TypeOK ==
    /\ lifecycle \in {"constructed", "mounted", "unmounted"}
    /\ phase \in {"idle", "didUpdate"}
    /\ props \in hostProps
    /\ watchdog \in 0..nWatchdogs
    /\ nWatchdogs <= nCreations
    /\ nCreations \in 0..MaxCreations
    /\ \A c \in Slots : wdEditor[c] \in 0..nCreations

(* ------------------------------ claims -------------------------------- *)

\* The setTimeout callbacks of creation c that have not run yet.
PendingTimers(c) == Cardinality({i \in 1..Len(timers) : timers[i] = c})

LiveEditors == {c \in Slots : edState[c] = "live"}

\* The create() calls of the component (not the supervisor's restarts) whose
\* promise is neither resolved nor rejected.
CreatesInFlight == {c \in Slots : ~crRestart[c] /\ crStatus[c] \in {"queued", "pending"}}

\* C1: every creation that succeeded (first mount, re-creation, restart) has
\* exactly one onReady timer callback, pending or run, and none before the
\* engine's promise resolved; the callback, when it runs, calls onReady
\* exactly once if props.onReady is set then, and not at all otherwise.
OnReadyOncePerCreation ==
    /\ \A c \in Slots :
        IF crStatus[c] = "resolved"
        THEN PendingTimers(c) + timerRuns[c] = 1
        ELSE PendingTimers(c) = 0 /\ timerRuns[c] = 0
    /\ lastReady.c # 0 =>
        /\ crStatus[lastReady.c] = "resolved"
        /\ timerRuns[lastReady.c] = 1
        /\ Len(lastReady.args) = IF props.onReady THEN 1 ELSE 0

\* Both the first creation and a later one (a re-creation or a restart) had
\* their callback run, the last one calling onReady.
OnReadyOncePerCreationWitness ==
    /\ timerRuns[1] = 1
    /\ timerRuns[2] = 1
    /\ lastReady.c = 2
    /\ Len(lastReady.args) = 1

\* C2: every onReady call receives the editor of the creation that scheduled
\* it, never null (0) and never the editor of another creation.
OnReadyReceivesOwnHandle ==
    \A i \in 1..Len(lastReady.args) : lastReady.args[i] = lastReady.c

\* C3: an update whose data prop equals the previous data prop, or equals the
\* editor's content, makes no setData call.
NoPushWhenDataUnchanged ==
    (lastUpdate.kind # "none" /\ (lastUpdate.sameAsPrev \/ lastUpdate.sameAsContent))
        => lastUpdate.setData = <<>>

\* An in-place update kept the data prop while the user had changed the
\* content, and nothing was pushed.
NoPushWhenDataUnchangedWitness ==
    /\ lastUpdate.kind = "inPlace"
    /\ lastUpdate.sameAsPrev
    /\ ~lastUpdate.sameAsContent
    /\ lastUpdate.setData = <<>>

\* C4: an update with unchanged id on a live editor whose data prop differs
\* from the previous data prop and from the editor's content makes exactly
\* one setData call, on the live editor, with the new data prop.
PushOnceWhenDataDiffers ==
    (lastUpdate.kind = "inPlace" /\ ~lastUpdate.sameAsPrev /\ ~lastUpdate.sameAsContent)
        => /\ lastUpdate.setData = <<props.data>>
           /\ ComponentEditor # 0
           /\ edData[ComponentEditor] = props.data

PushOnceWhenDataDiffersWitness ==
    /\ lastUpdate.kind = "inPlace"
    /\ lastUpdate.setData = <<"A">>
    /\ edState[ComponentEditor] = "live"

\* C5: on an id change with a live editor, destroy() is called on the old
\* watchdog before the new create() is issued (between shouldComponentUpdate
\* and componentDidUpdate the old watchdog is destroyed and neither a newer
\* watchdog nor a creation of one exists), and the new create() gets the
\* configuration of the new props.
DestroyBeforeCreateOnIdentityChange ==
    /\ phase = "didUpdate" =>
        /\ lastUpdate.kind = "identity"
        /\ lastUpdate.wd # 0
        /\ wdDestroyCalls[lastUpdate.wd] = 1
        /\ watchdog = 0
        /\ nWatchdogs = lastUpdate.wd
        /\ \A c \in Slots : crWatchdog[c] <= lastUpdate.wd
    /\ (phase = "idle" /\ lastUpdate.kind = "identity") =>
        /\ wdDestroyCalls[lastUpdate.wd] = 1
        /\ nWatchdogs = lastUpdate.wd + 1
        /\ watchdog = nWatchdogs
        /\ crWatchdog[nCreations] = watchdog
        /\ crStatus[nCreations] = "queued"
        /\ crConfig[nCreations].initialData =
              (IF props.initialData # "" THEN props.initialData ELSE props.data)

\* componentDidUpdate has issued the create for an id change that also
\* changed the data prop to "A".
DestroyBeforeCreateWitness ==
    /\ phase = "idle"
    /\ lastUpdate.kind = "identity"
    /\ ~lastUpdate.sameAsPrev
    /\ props.data = "A"
    /\ crConfig[nCreations].initialData = "A"

\* C6: while the component is mounted, at most one editor it created is live
\* (created and not yet destroyed).
AtMostOneLiveHandle ==
    lifecycle = "mounted" => Cardinality(LiveEditors) <= 1

\* C7: while the component is mounted, at most one create() it issued is in
\* flight.
AtMostOneCreateInFlight ==
    lifecycle = "mounted" => Cardinality(CreatesInFlight) <= 1

\* C8: an itemError of the shared registry invokes the error callback of the
\* adapter whose id it carries exactly once, with the event's error and
\* causesRestart, and the callback of no other adapter.
ErrorRoutedByItemId ==
    lastEvent.kind = "registry" =>
        \A a \in listeners :
            lastCallbacks[a] =
                IF lastEvent.itemId = a
                THEN <<[error |-> lastEvent.error,
                        causesRestart |-> lastEvent.causesRestart]>>
                ELSE <<>>

\* Two adapters listen on the registry and the event carries the id of one.
ErrorRoutedByItemIdWitness ==
    /\ lastEvent.kind = "registry"
    /\ Cardinality(listeners) >= 2
    /\ lastEvent.itemId \in listeners
    /\ lastCallbacks[lastEvent.itemId] # <<>>

\* C9: _destroyEditor without a watchdog changes nothing and calls nothing;
\* with one it calls destroy() on it once and clears the reference.  So no
\* watchdog has destroy() called twice, and after unmount the component
\* holds none and the one it held last was destroyed once.
DestroyIsIdempotent ==
    /\ \A w \in Slots : wdDestroyCalls[w] <= 1
    /\ lifecycle = "unmounted" =>
        /\ watchdog = 0
        /\ nWatchdogs > 0 => wdDestroyCalls[nWatchdogs] = 1
        /\ nWatchdogs = 0 =>
            /\ microtasks = <<>>
            /\ regQueue = <<>>
            /\ \A w \in Slots : wdDestroyCalls[w] = 0

\* Unmounted after two creations, each watchdog destroyed once.
DestroyIsIdempotentWitness ==
    /\ lifecycle = "unmounted"
    /\ nWatchdogs = 2
    /\ wdDestroyCalls[1] = 1
    /\ wdDestroyCalls[2] = 1

\* C10: a create() of _initializeEditor that rejects with E calls onError
\* once, with E and { phase: 'initialization', willEditorRestart: false };
\* onReady is never called for it, and its watchdog never holds an editor.
RejectedCreateReportsInitialization ==
    /\ \A c \in Slots :
        IF crStatus[c] = "rejected" /\ ~crRestart[c]
        THEN /\ catchCount[c] = 1
             /\ timerRuns[c] = 0
             /\ PendingTimers(c) = 0
             /\ edState[c] = "none"
             /\ wdEditor[crWatchdog[c]] = 0
             /\ watchdog = crWatchdog[c] => ComponentEditor = 0
        ELSE catchCount[c] = 0
    /\ (lastEvent.kind = "rejected" /\ ~crRestart[lastEvent.itemId]) =>
        lastCatch = <<[error |-> lastEvent.error, phase |-> "initialization",
                       willEditorRestart |-> FALSE]>>
    /\ (lastEvent.kind # "rejected" \/ crRestart[lastEvent.itemId]) =>
        lastCatch = <<>>

\* The first create has just rejected with E2 and was reported.
RejectedCreateWitness ==
    /\ crStatus[1] = "rejected"
    /\ lastEvent.kind = "rejected"
    /\ lastEvent.error = "E2"
    /\ Len(lastCatch) = 1

\* The onError calls the last step made: those of the runtime listeners the
\* last error event invoked, and those of the .catch of _initializeEditor.
RECURSIVE RuntimeCallsUpTo(_)
RuntimeCallsUpTo(n) ==
    IF n = 0 THEN <<>>
    ELSE RuntimeCallsUpTo(n - 1) \o
         (IF lastCallbacks[n] = <<>> THEN <<>> ELSE RuntimeListener(lastCallbacks[n][1]))

OnErrorCalls == RuntimeCallsUpTo(MaxCreations) \o lastCatch

\* C11: an error event a watchdog fires for an editor of the component is
\* reported by exactly one onError call, with the event's error, phase
\* 'runtime' and willEditorRestart = causesRestart; the component holds the
\* same watchdog and has issued no create() and no destroy() in response;
\* an event for a foreign item is not reported; and a rejected create() is
\* never reported with phase 'runtime'.
RuntimeErrorReportedOnce ==
    /\ \A w \in Slots : Len(lastCallbacks[w]) <= 1
    /\ lastEvent.kind \in {"solo", "registry"} =>
        /\ OnErrorCalls =
              IF lastEvent.itemId \in Slots
              THEN <<[error |-> lastEvent.error, phase |-> "runtime",
                      willEditorRestart |-> lastEvent.causesRestart]>>
              ELSE <<>>
        /\ lastEvent.issued = Issued
    /\ lastEvent.kind = "rejected" =>
        \A i \in 1..Len(OnErrorCalls) : OnErrorCalls[i].phase = "initialization"
    /\ lastEvent.kind = "none" => OnErrorCalls = <<>>

\* A watchdog has just reported an error that makes it restart the editor.
RuntimeErrorReportedWitness ==
    /\ lastEvent.kind \in {"solo", "registry"}
    /\ lastEvent.itemId = watchdog
    /\ lastEvent.causesRestart
    /\ Len(OnErrorCalls) = 1
    /\ OnErrorCalls[1].willEditorRestart

\* C12: after an update with unchanged id on a live editor whose props hold
\* a disabled flag, the same editor's isReadOnly equals that flag, whatever
\* happened to the data; without the flag isReadOnly is left as it was; and
\* an update that keeps the data prop and passes disabled = true leaves
\* isReadOnly true without any setData call.
DisabledAppliedInPlace ==
    lastUpdate.kind = "inPlace" =>
        /\ ComponentEditor = lastUpdate.ed
        /\ props.disabled # "absent" =>
              edReadOnly[ComponentEditor] = (props.disabled = "true")
        /\ props.disabled = "absent" =>
              edReadOnly[ComponentEditor] = lastUpdate.wasReadOnly
        /\ (lastUpdate.sameAsPrev /\ props.disabled = "true") =>
              /\ edReadOnly[ComponentEditor]
              /\ lastUpdate.setData = <<>>

\* An update kept the data prop and turned disabled to true on an editor
\* that was not read-only: the flag is set and nothing was pushed.
DisabledAppliedWitness ==
    /\ lastUpdate.kind = "inPlace"
    /\ lastUpdate.sameAsPrev
    /\ ~lastUpdate.wasReadOnly
    /\ props.disabled = "true"
    /\ edReadOnly[ComponentEditor]
    /\ lastUpdate.setData = <<>>

\* C13: every watchdog a mounted component constructs is of the kind of the
\* first one (EditorWatchdog or EditorWatchdogAdapter).
BackendVariantFixed ==
    \A w \in Slots : w <= nWatchdogs => wdKind[w] = wdKind[1]

\* C14: an onReady call is made only while the component is mounted and
\* still holds the watchdog of the creation that scheduled the call (it has
\* not destroyed it on an id change).
NoStaleOnReady ==
    lastReady.args # <<>> =>
        /\ lifecycle = "mounted"
        /\ watchdog = crWatchdog[lastReady.c]

\* C15: every live editor has exactly one listener per event (change:data,
\* focus, blur), each bound to that editor; an event an editor emits makes
\* at most one call, of the callback of that event and with the emitting
\* editor; and for an event the user causes the call is made exactly when
\* props holds the callback.
EventsForwardedOnce ==
    /\ \A c \in Slots : edState[c] = "live" =>
        /\ \A k \in {"change:data", "focus", "blur"} :
              Cardinality({i \in 1..Len(edListeners[c]) :
                              edListeners[c][i].event = k}) = 1
        /\ \A i \in 1..Len(edListeners[c]) : edListeners[c][i].editor = c
    /\ lastDom.c # 0 =>
        LET callback == CASE lastDom.kind = "change:data" -> "onChange"
                          [] lastDom.kind = "focus" -> "onFocus"
                          [] lastDom.kind = "blur" -> "onBlur"
            supplied == CASE lastDom.kind = "change:data" -> props.onChange
                          [] lastDom.kind = "focus" -> props.onFocus
                          [] lastDom.kind = "blur" -> props.onBlur
        IN /\ Len(lastDom.calls) <= 1
           /\ \A i \in 1..Len(lastDom.calls) :
                 lastDom.calls[i] = [callback |-> callback, editor |-> lastDom.c]
           /\ lastDom.src = "user" =>
                 Len(lastDom.calls) = IF supplied THEN 1 ELSE 0

\* The editor of a second creation, made while the first editor is still
\* live, lost the focus and onBlur was called with it.
EventsForwardedWitness ==
    /\ lastDom.c = 2
    /\ lastDom.kind = "blur"
    /\ lastDom.calls = <<[callback |-> "onBlur", editor |-> 2]>>
    /\ edState[1] = "live"

\* C16: the configuration _initializeEditor passes to create() holds the
\* other config fields of props unchanged and, as initialData,
\* config.initialData if it is set (not empty), else the data prop if it is
\* set, else the empty string; a warning is made exactly when both are set.
ConfigMergedFromProps ==
    lastInit.c # 0 =>
        /\ lastInit.config.initialData =
              (IF props.initialData # "" THEN props.initialData
               ELSE IF props.data # "" THEN props.data ELSE "")
        /\ lastInit.config.language = props.language
        /\ Len(lastInit.warnings) =
              (IF props.initialData # "" /\ props.data # "" THEN 1 ELSE 0)
        /\ crStatus[lastInit.c] = "queued"
        /\ crConfig[lastInit.c] = lastInit.config

\* A create() issued with both config.initialData and data set: the config
\* field wins, the language is passed on, and the warning was made.
ConfigMergedWitness ==
    /\ lastInit.c # 0
    /\ props.initialData = "I"
    /\ props.data = "A"
    /\ lastInit.config = [initialData |-> "I", language |-> "en"]
    /\ lastInit.warnings # <<>>

\* C17: shouldComponentUpdate returns true exactly when it found a live
\* editor and a changed id; after an update that keeps the id it has
\* returned false, the component has issued no create() and no destroy(),
\* holds the same watchdog, and this.editor is the editor it was before.
UpdateInPlaceNeverRecreates ==
    lastUpdate.kind # "none" =>
        /\ lastUpdate.returned <=> (lastUpdate.ed # 0 /\ ~lastUpdate.sameId)
        /\ lastUpdate.returned <=> (lastUpdate.kind = "identity")
        /\ lastUpdate.sameId =>
            /\ ~lastUpdate.returned
            /\ phase = "idle"
            /\ Issued = lastUpdate.before
            /\ ComponentEditor = lastUpdate.ed
            /\ lastUpdate.ed # 0 => edState[lastUpdate.ed] = "live"

\* An update changed data and disabled under the same id: the data was
\* pushed, the flag written, false returned, the editor kept.
UpdateInPlaceWitness ==
    /\ lastUpdate.kind = "inPlace"
    /\ lastUpdate.setData # <<>>
    /\ lastUpdate.readOnly # <<>>
    /\ ~lastUpdate.returned
    /\ ComponentEditor = lastUpdate.ed

\* C18: the editor getter of an adapter never throws and returns null for
\* an id the registry does not hold (not yet added, or removed); this.editor
\* is null without a watchdog, and otherwise null or a live editor.
EditorAccessorNeverThrows ==
    /\ \A w \in Slots : (w <= nWatchdogs /\ wdKind[w] = "registry") =>
        /\ ~AdapterEditorOutcome(w).threw
        /\ w \notin registered => AdapterEditorOutcome(w).value = 0
        /\ w \in registered => AdapterEditorOutcome(w).value = wdEditor[w]
    /\ watchdog = 0 => ComponentEditor = 0
    /\ ComponentEditor # 0 => edState[ComponentEditor] = "live"

\* The registry has removed the first adapter's item and not yet added the
\* second adapter's, the one the component holds: both lookups miss.
EditorAccessorWitness ==
    /\ nWatchdogs = 2
    /\ watchdog = 2
    /\ wdKind[1] = "registry" /\ wdKind[2] = "registry"
    /\ wdDestroyCalls[1] = 1
    /\ registered = {}
    /\ ComponentEditor = 0

\* C19: an update that finds no live editor (the create in flight or
\* rejected, or the editor restarting) returns false, calls neither setData
\* nor isReadOnly, and issues no destroy() and no create(), whatever the
\* new id; and once a create() of the component has been rejected, the
\* component issues no further create() while it is mounted.
NoOpWithoutLiveHandle ==
    /\ (lastUpdate.kind # "none" /\ lastUpdate.ed = 0) =>
        /\ lastUpdate.kind = "noEditor"
        /\ ~lastUpdate.returned
        /\ lastUpdate.setData = <<>>
        /\ lastUpdate.readOnly = <<>>
        /\ phase = "idle"
        /\ Issued = lastUpdate.before
    /\ \A c \in Slots : (crStatus[c] = "rejected" /\ ~crRestart[c]) =>
        \A d \in Slots : (d > c /\ crStatus[d] # "none") => crRestart[d]

\* C20: whenever this.editor is an editor and props holds a disabled flag,
\* the editor's isReadOnly equals the flag.
ReadOnlyFollowsDisabled ==
    (ComponentEditor # 0 /\ props.disabled # "absent") =>
        edReadOnly[ComponentEditor] = (props.disabled = "true")

\* The watchdog restarted the editor while disabled was true: the editor of
\* the restart is read-only.
ReadOnlyFollowsDisabledWitness ==
    /\ ComponentEditor # 0
    /\ crRestart[ComponentEditor]
    /\ props.disabled = "true"
    /\ edReadOnly[ComponentEditor]

====
